---- MODULE Spec2Model ----
(***************************************************************************)
(* Model of process_cass_values.py: parse_point, add_normalized, the       *)
(* renderers write_csv / print_table / plot, and the pipeline of main.     *)
(*                                                                         *)
(* Python floats are modelled as exact rationals <<num, den>> (den > 0, in *)
(* lowest terms).  The argument texts of the model are finite decimal      *)
(* numerals, so float() never yields inf or nan here.  None is <<>>.       *)
(* Texts are sequences of one-character strings.                           *)
(***************************************************************************)
EXTENDS Integers, Sequences, FiniteSets, TLC

VARIABLES argv, pc, idx, points, max_thr, csv_file, stdout, stderr,
          pts_sorted, labels, heights, bar_text, ylim, chart_file,
          exit_code, calls

vars == <<argv, pc, idx, points, max_thr, csv_file, stdout, stderr,
          pts_sorted, labels, heights, bar_text, ylim, chart_file,
          exit_code, calls>>

\* Largest number of positional arguments on a modelled command line.
MaxArgs == 3

\* Largest number of direct function calls in the function-level harness.
MaxCalls == 2

None == <<>>

----------------------------------------------------------------------------
(* Exact arithmetic standing for float arithmetic.                         *)

Abs(n) == IF n < 0 THEN -n ELSE n

RECURSIVE GCD(_, _)
GCD(a, b) == IF b = 0 THEN a ELSE GCD(b, a % b)

\* The rational n/d in lowest terms, d # 0.
Rat(n, d) ==
    LET s == IF d < 0 THEN -1 ELSE 1
        g == GCD(Abs(n), Abs(d))
    IN  <<(s * n) \div g, (s * d) \div g>>

RatLt(a, b) == a[1] * b[2] < b[1] * a[2]
RatLe(a, b) == a[1] * b[2] <= b[1] * a[2]
RatDiv(a, b) == Rat(a[1] * b[2], a[2] * b[1])
RatMul(a, b) == Rat(a[1] * b[1], a[2] * b[2])
RatSub(a, b) == Rat(a[1] * b[2] - b[1] * a[2], a[2] * b[2])
Zero == <<0, 1>>
Hundred == <<100, 1>>

\* Variant of Truthy that asks for a positive value.
Truthy_positive(v) == v # None /\ v[1] > 0

\* Python truthiness of an Optional[float]: None and 0.0 are falsy.
Truthy(v) == v # None /\ v[1] # 0

RECURSIVE Pow10(_)
Pow10(k) == IF k = 0 THEN 1 ELSE 10 * Pow10(k - 1)

\* f"{v:.{places}f}": v rounded to `places` decimals (ties to even), kept
\* as the pair <<scaled integer, number of decimals>>.
Fmt(v, places) ==
    LET n == Abs(v[1]) * Pow10(places)
        q == n \div v[2]
        r == n % v[2]
        up == (2 * r > v[2]) \/ (2 * r = v[2] /\ q % 2 = 1)
        m == IF up THEN q + 1 ELSE q
    IN  <<IF v[1] < 0 THEN -m ELSE m, places>>

----------------------------------------------------------------------------
(* Text handling of parse_point.                                           *)

DigitChars == <<"0", "1", "2", "3", "4", "5", "6", "7", "8", "9">>
IsDigit(c) == \E k \in 1..10 : DigitChars[k] = c
DigitVal(c) == (CHOOSE k \in 1..10 : DigitChars[k] = c) - 1

\* text.split(","): the fields between the commas, in order.
RECURSIVE SplitFrom(_, _, _)
SplitFrom(text, k, cur) ==
    IF k > Len(text) THEN <<cur>>
    ELSE IF text[k] = "," THEN <<cur>> \o SplitFrom(text, k + 1, <<>>)
    ELSE SplitFrom(text, k + 1, Append(cur, text[k]))

Split(text) == SplitFrom(text, 1, <<>>)

\* val.strip()
RECURSIVE LStrip(_)
LStrip(s) == IF s # <<>> /\ Head(s) = " " THEN LStrip(Tail(s)) ELSE s

RECURSIVE RStrip(_)
RStrip(s) ==
    IF s # <<>> /\ s[Len(s)] = " " THEN RStrip(SubSeq(s, 1, Len(s) - 1)) ELSE s

Strip(s) == RStrip(LStrip(s))

\* val.upper() on the letters of the modelled alphabet.
UpperChar(c) ==
    CASE c = "n" -> "N"
      [] c = "a" -> "A"
      [] c = "x" -> "X"
      [] OTHER -> c

Upper(s) == [k \in 1..Len(s) |-> UpperChar(s[k])]

\* Value of a digit string read left to right.
RECURSIVE DigitsVal(_, _)
DigitsVal(s, acc) ==
    IF s = <<>> THEN acc ELSE DigitsVal(Tail(s), 10 * acc + DigitVal(Head(s)))

AllDigits(s) == \A k \in 1..Len(s) : IsDigit(s[k])

\* Position of the first "." in s, or 0.
DotPos(s) ==
    IF \E k \in 1..Len(s) : s[k] = "."
    THEN CHOOSE k \in 1..Len(s) : s[k] = "." /\ \A j \in 1..(k - 1) : s[j] # "."
    ELSE 0

\* float(val) on decimal numerals [-]ddd[.ddd]; None stands for ValueError.
ParseFloat(val) ==
    LET neg  == val # <<>> /\ Head(val) = "-"
        body == IF neg THEN Tail(val) ELSE val
        dot  == DotPos(body)
        ip   == IF dot = 0 THEN body ELSE SubSeq(body, 1, dot - 1)
        fp   == IF dot = 0 THEN <<>> ELSE SubSeq(body, dot + 1, Len(body))
        ok   == AllDigits(ip) /\ AllDigits(fp) /\ Len(ip) + Len(fp) > 0
        mag  == Rat(DigitsVal(ip \o fp, 0), Pow10(Len(fp)))
    IN  IF ~ok THEN None
        ELSE IF neg THEN <<-mag[1], mag[2]>> ELSE mag

parse_num(val) ==
    LET v == Strip(val)
    IN  IF v = <<>> \/ Upper(v) = <<"N", "/", "A">> THEN None
        ELSE ParseFloat(v)

\* Variant of BadPoint that lets extra fields through.
BadPoint_lt(text) == Len(Split(text)) < 3

\* parse_point on a token with exactly three fields.
BadPoint(text) == Len(Split(text)) # 3

parse_point(text) ==
    LET parts == Split(text)
    IN  [cpu_pct    |-> parse_num(parts[1]),
         throughput |-> parse_num(parts[2]),
         latency    |-> parse_num(parts[3])]

----------------------------------------------------------------------------
(* add_normalized.                                                         *)

\* pt.get(key): the value under key, None when the key is absent.
Get(pt, key) == IF key \in DOMAIN pt THEN pt[key] ELSE None

\* Variant of MaxLoop with the comparison reversed (keeps the smallest).
RECURSIVE MaxLoop_min(_, _, _)
MaxLoop_min(pts, k, m) ==
    IF k > Len(pts) THEN m
    ELSE LET thr == Get(pts[k], "throughput")
         IN  IF thr = None THEN MaxLoop_min(pts, k + 1, m)
             ELSE IF m = None \/ RatLt(thr, m) THEN MaxLoop_min(pts, k + 1, thr)
             ELSE MaxLoop_min(pts, k + 1, m)

\* The first loop of add_normalized from position k on: the running max_thr.
RECURSIVE MaxLoop(_, _, _)
MaxLoop(pts, k, m) ==
    IF k > Len(pts) THEN m
    ELSE LET thr == Get(pts[k], "throughput")
         IN  IF thr = None THEN MaxLoop(pts, k + 1, m)
             ELSE IF m = None \/ RatLt(m, thr) THEN MaxLoop(pts, k + 1, thr)
             ELSE MaxLoop(pts, k + 1, m)

\* Variant of MaxThr without the comparison (keeps the first known value).
MaxThr_first(pts) ==
    IF \E k \in 1..Len(pts) : Get(pts[k], "throughput") # None
    THEN Get(pts[CHOOSE k \in 1..Len(pts) :
                     /\ Get(pts[k], "throughput") # None
                     /\ \A j \in 1..(k - 1) : Get(pts[j], "throughput") = None],
             "throughput")
    ELSE None

MaxThr(pts) == MaxLoop(pts, 1, None)

\* The body of the second loop: the value stored under normalized_throughput.
NormValue(m, thr) == IF Truthy(m) /\ thr # None THEN RatDiv(thr, m) ELSE None

\* Variant of SetNorm that also stores the ratio under throughput.
SetNorm_overwrite(pt, v) ==
    [cpu_pct               |-> pt.cpu_pct,
     throughput            |-> v,
     latency               |-> pt.latency,
     normalized_throughput |-> v]

\* pt["normalized_throughput"] = v: the other keys keep their values.
SetNorm(pt, v) ==
    [cpu_pct               |-> pt.cpu_pct,
     throughput            |-> pt.throughput,
     latency               |-> pt.latency,
     normalized_throughput |-> v]

\* Variant of add_normalized that reads an already stored ratio as its input.
add_normalized_reuse(pts) ==
    LET src(pt) == IF Get(pt, "normalized_throughput") # None
                   THEN pt.normalized_throughput ELSE Get(pt, "throughput")
        m == MaxThr(pts)
    IN  [k \in 1..Len(pts) |-> SetNorm(pts[k], NormValue(m, src(pts[k])))]

\* The list after add_normalized(points) has run on it.
add_normalized(pts) ==
    LET m == MaxThr(pts)
    IN  [k \in 1..Len(pts) |-> SetNorm(pts[k], NormValue(m, Get(pts[k], "throughput")))]

----------------------------------------------------------------------------
(* write_csv and print_table: the lines written, in order.                 *)

Cell(v, places) == IF v = None THEN <<>> ELSE Fmt(v, places)

CsvRow(pt) ==
    LET avail == IF pt.cpu_pct = None THEN None ELSE RatSub(Hundred, pt.cpu_pct)
    IN  [kind  |-> "csv_row",
         cells |-> <<pt.cpu_pct,
                     avail,
                     Cell(pt.throughput, 2),
                     Cell(pt.latency, 2),
                     Cell(Get(pt, "normalized_throughput"), 4)>>]

CsvHeader ==
    [kind  |-> "csv_header",
     names |-> <<"cpu_pct", "cpu_availability_pct", "throughput", "latency",
                 "normalized_throughput">>]

write_csv(pts) == <<CsvHeader>> \o [k \in 1..Len(pts) |-> CsvRow(pts[k])]

TableRow(pt) ==
    LET cpu_avail == IF pt.cpu_pct # None
                     THEN Fmt(RatSub(Hundred, pt.cpu_pct), 0) ELSE <<>>
    IN  [kind  |-> "table_row",
         cells |-> <<cpu_avail,
                     Cell(pt.throughput, 2),
                     Cell(pt.latency, 2),
                     Cell(Get(pt, "normalized_throughput"), 4)>>]

TableHeader ==
    [kind  |-> "table_header",
     names |-> <<"CPU avail", "Throughput", "Latency", "NormThr">>]

TableRule == [kind |-> "table_rule", dashes |-> 12 + 14 + 12 + 10]

print_table(pts) ==
    <<TableHeader, TableRule>> \o [k \in 1..Len(pts) |-> TableRow(pts[k])]

----------------------------------------------------------------------------
(* plot.                                                                   *)

sort_key(pt) == IF pt.cpu_pct # None THEN pt.cpu_pct ELSE <<999, 1>>

\* sorted(points, key=sort_key): a stable sort, as an insertion from the left
\* that places each element after the elements whose key is not greater.
RECURSIVE InsertByKey(_, _)
InsertByKey(acc, pt) ==
    IF acc = <<>> THEN <<pt>>
    ELSE IF RatLe(sort_key(Head(acc)), sort_key(pt))
         THEN <<Head(acc)>> \o InsertByKey(Tail(acc), pt)
         ELSE <<pt>> \o acc

RECURSIVE SortFrom(_, _, _)
SortFrom(pts, k, acc) ==
    IF k > Len(pts) THEN acc ELSE SortFrom(pts, k + 1, InsertByKey(acc, pts[k]))

Sorted(pts) == SortFrom(pts, 1, <<>>)

BarLabel(pt) ==
    IF pt.cpu_pct = None THEN <<"?">> ELSE Fmt(RatSub(Hundred, pt.cpu_pct), 0)

BarHeight(pt) ==
    LET norm == Get(pt, "normalized_throughput")
    IN  IF norm = None THEN Zero ELSE RatMul(norm, Hundred)

BarText(height) == IF RatLe(height, Zero) THEN <<"n/a">> ELSE Fmt(height, 1)

RECURSIVE MaxOf(_, _, _)
MaxOf(hs, k, m) ==
    IF k > Len(hs) THEN m
    ELSE MaxOf(hs, k + 1, IF RatLt(m, hs[k]) THEN hs[k] ELSE m)

\* max(heights + [100]) * 1.1
YLim(hs) == RatMul(MaxOf(hs, 1, Hundred), <<11, 10>>)

\* Variant of PointsAfterPlot for points.sort(key=sort_key), in place.
PointsAfterPlot_inplace(pts) == Sorted(pts)

\* The list `points` as plot leaves it: sorted() builds a new list.
PointsAfterPlot(pts) == pts

\* plot(points, out_path) with the environment's answers: mpl is whether
\* matplotlib imports, save_ok whether tight_layout/savefig succeed.  The
\* result names what the call leaves behind; raised is an exception that
\* leaves plot (the try at the end has a finally and no except).
plot(pts, out_path, mpl, save_ok) ==
    LET srt == Sorted(pts)
        lbl == [k \in 1..Len(srt) |-> BarLabel(srt[k])]
        hts == [k \in 1..Len(srt) |-> BarHeight(srt[k])]
        blank == [ret |-> FALSE, raised |-> FALSE, out |-> <<>>, err |-> <<>>,
                  points |-> pts, pts_sorted |-> <<>>, labels |-> <<>>,
                  heights |-> <<>>, bar_text |-> <<>>, ylim |-> None,
                  chart |-> None]
        drawn == [blank EXCEPT !.points = PointsAfterPlot(pts),
                               !.pts_sorted = srt,
                               !.labels = lbl, !.heights = hts]
        fig   == [drawn EXCEPT !.bar_text = [k \in 1..Len(hts) |-> BarText(hts[k])],
                               !.ylim = YLim(hts)]
    IN  IF ~mpl
        THEN [blank EXCEPT !.err = <<[kind |-> "plot_skipped"]>>]
        ELSE IF lbl = <<>> THEN drawn
        ELSE IF save_ok
        THEN [fig EXCEPT !.ret = TRUE,
                         !.out = <<[kind |-> "wrote_plot", path |-> out_path]>>,
                         !.chart = [path |-> out_path, labels |-> lbl, heights |-> hts]]
        ELSE [fig EXCEPT !.raised = TRUE]

----------------------------------------------------------------------------
(* The command lines of the model.                                         *)

Tok1 == <<"0", ",", "1", "0", "0", "0", "0", "0", ".", "0", ",", "6", "2", "0", ".", "0">>
Tok2 == <<"2", "5", ",", "8", "2", "0", "0", "0", ".", "0", ",", "6", "4", "0", ".", "5">>
Tok3 == <<"5", "0", ",", "n", "/", "a", ",", " ">>
Tok4 == <<"1", "0", "0", "0", ",", " ", "0", " ", ",">>
Tok5 == <<"N", "/", "A", ",", "-", "5", ",", "x">>
Tok6 == <<"1", ",", "2">>
Tok7 == <<"1", ",", "2", ",", "3", ",", "4">>

GoodTokens == {Tok1, Tok2, Tok3, Tok4, Tok5}
Tokens == GoodTokens \cup {Tok6, Tok7}

\* The tokens of the lists the functions are called on directly.
FnTokens == {Tok1, Tok3, Tok4, Tok5}

SeqsUpTo(S, lo, hi) == UNION {[1..n -> S] : n \in lo..hi}

Formats == {"csv", "json", "table"}
DefaultPlotOut == "cass_normalized_throughput.png"

\* parse_args: nargs="+" leaves at least one positional argument; an absent
\* --output-csv is "" here (both are falsy).
ArgSpace ==
    [points     : SeqsUpTo(Tokens, 1, MaxArgs),
     format     : Formats,
     output_csv : {"", "out.csv"},
     plot_out   : {DefaultPlotOut, ""},
     no_plot    : BOOLEAN]

----------------------------------------------------------------------------
(* main, one action per step of its body.                                  *)

\* Variant of StepAfter with the stdout renderer ahead of the file write.
StepAfter_render_first(stage) ==
    CASE stage = "parse"      -> "normalize"
      [] stage = "normalize"  -> "render"
      [] stage = "render"     -> "write_file"
      [] stage = "write_file" -> "plot"
      [] stage = "plot"       -> "exit"

\* The step main takes after each of its steps.
StepAfter(stage) ==
    CASE stage = "parse"      -> "normalize"
      [] stage = "normalize"  -> "write_file"
      [] stage = "write_file" -> "render"
      [] stage = "render"     -> "plot"
      [] stage = "plot"       -> "exit"

Init ==
    /\ argv \in ArgSpace
    /\ pc = "parse"
    /\ idx = 1
    /\ points = <<>>
    /\ max_thr = None
    /\ csv_file = None
    /\ stdout = <<>>
    /\ stderr = <<>>
    /\ pts_sorted = <<>>
    /\ labels = <<>>
    /\ heights = <<>>
    /\ bar_text = <<>>
    /\ ylim = None
    /\ chart_file = None
    /\ exit_code = None
    /\ calls = <<>>

\* One element of the comprehension [parse_point(p) for p in args.points];
\* a ValueError ends main with 1.
ParsePoint ==
    /\ pc = "parse"
    /\ idx <= Len(argv.points)
    /\ LET text == argv.points[idx]
       IN  IF BadPoint(text)
           THEN /\ stderr' = Append(stderr, [kind |-> "bad_point", text |-> text])
                /\ pc' = "exit"
                /\ exit_code' = <<1>>
                /\ UNCHANGED <<idx, points>>
           ELSE /\ points' = Append(points, parse_point(text))
                /\ idx' = idx + 1
                /\ pc' = IF idx = Len(argv.points) THEN StepAfter("parse") ELSE "parse"
                /\ UNCHANGED <<stderr, exit_code>>
    /\ UNCHANGED <<argv, max_thr, csv_file, stdout, pts_sorted, labels, heights,
                   bar_text, ylim, chart_file, calls>>

AddNormalized ==
    /\ pc = "normalize"
    /\ points' = add_normalized(points)
    /\ max_thr' = MaxThr(points)
    /\ pc' = StepAfter("normalize")
    /\ UNCHANGED <<argv, idx, csv_file, stdout, stderr, pts_sorted, labels,
                   heights, bar_text, ylim, chart_file, exit_code, calls>>

\* if args.output_csv: open the file and write_csv into it; OSError from
\* open (nothing written) or from a write (a prefix written) ends main with 1.
WriteCsvFile ==
    /\ pc = "write_file"
    /\ \/ /\ argv.output_csv = ""
          /\ pc' = StepAfter("write_file")
          /\ UNCHANGED <<csv_file, stderr, exit_code>>
       \/ /\ argv.output_csv # ""
          /\ csv_file' = [path |-> argv.output_csv, lines |-> write_csv(points),
                          complete |-> TRUE]
          /\ pc' = StepAfter("write_file")
          /\ UNCHANGED <<stderr, exit_code>>
       \/ /\ argv.output_csv # ""
          /\ \/ UNCHANGED csv_file
             \/ \E n \in 0..Len(points) :
                    csv_file' = [path |-> argv.output_csv,
                                 lines |-> SubSeq(write_csv(points), 1, n),
                                 complete |-> FALSE]
          /\ stderr' = Append(stderr, [kind |-> "csv_failed", path |-> argv.output_csv])
          /\ pc' = "exit"
          /\ exit_code' = <<1>>
    /\ UNCHANGED <<argv, idx, points, max_thr, stdout, pts_sorted, labels,
                   heights, bar_text, ylim, chart_file, calls>>

\* The stdout renderer selected by --format.
RenderStdout ==
    /\ pc = "render"
    /\ \/ /\ argv.format = "csv"
          /\ stdout' = stdout \o write_csv(points)
       \/ /\ argv.format = "json"
          /\ \E isatty \in BOOLEAN :
                 stdout' = stdout \o <<[kind |-> "json", doc |-> points, indent |-> 2]>>
                                  \o (IF isatty THEN <<>> ELSE <<[kind |-> "newline"]>>)
       \/ /\ argv.format = "table"
          /\ stdout' = stdout \o print_table(points)
    /\ pc' = StepAfter("render")
    /\ UNCHANGED <<argv, idx, points, max_thr, csv_file, stderr, pts_sorted,
                   labels, heights, bar_text, ylim, chart_file, exit_code, calls>>

\* What a call of plot leaves in the state.
PlotEffect(r) ==
    /\ points' = r.points
    /\ pts_sorted' = r.pts_sorted
    /\ labels' = r.labels
    /\ heights' = r.heights
    /\ bar_text' = r.bar_text
    /\ ylim' = r.ylim
    /\ chart_file' = IF r.chart = None THEN chart_file ELSE r.chart
    /\ stdout' = stdout \o r.out

\* if not args.no_plot and args.plot_out: plot(...); return 0.  An exception
\* leaving plot is caught nowhere: the interpreter prints the traceback and
\* the process ends with status 1.
PlotAndReturn ==
    /\ pc = "plot"
    /\ \/ /\ ~(~argv.no_plot /\ argv.plot_out # "")
          /\ pc' = StepAfter("plot")
          /\ exit_code' = <<0>>
          /\ UNCHANGED <<points, pts_sorted, labels, heights, bar_text, ylim,
                         chart_file, stdout, stderr>>
       \/ /\ ~argv.no_plot /\ argv.plot_out # ""
          /\ \E mpl \in BOOLEAN, save_ok \in BOOLEAN :
                LET r == plot(points, argv.plot_out, mpl, save_ok)
                IN  /\ PlotEffect(r)
                    /\ IF r.raised
                       THEN /\ pc' = "crash"
                            /\ exit_code' = <<1>>
                            /\ stderr' = stderr \o r.err \o <<[kind |-> "traceback"]>>
                       ELSE /\ pc' = StepAfter("plot")
                            /\ exit_code' = <<0>>
                            /\ stderr' = stderr \o r.err
    /\ UNCHANGED <<argv, idx, max_thr, csv_file, calls>>

Next ==
    \/ ParsePoint
    \/ AddNormalized
    \/ WriteCsvFile
    \/ RenderStdout
    \/ PlotAndReturn

Spec == Init /\ [][Next]_vars

----------------------------------------------------------------------------
(* The functions called directly, in any order, on a parsed list: the      *)
(* second specification.  calls is the sequence of the calls made; each    *)
(* renderer call gets a fresh stream, so stdout and csv_file hold what the *)
(* latest call wrote.                                                      *)

InitFn ==
    /\ argv \in [points     : SeqsUpTo(FnTokens, 0, MaxArgs),
                 format     : {"csv"},
                 output_csv : {"out.csv"},
                 plot_out   : {DefaultPlotOut},
                 no_plot    : {FALSE}]
    /\ pc = "fn"
    /\ idx = Len(argv.points) + 1
    /\ points = [k \in 1..Len(argv.points) |-> parse_point(argv.points[k])]
    /\ max_thr = None
    /\ csv_file = None
    /\ stdout = <<>>
    /\ stderr = <<>>
    /\ pts_sorted = <<>>
    /\ labels = <<>>
    /\ heights = <<>>
    /\ bar_text = <<>>
    /\ ylim = None
    /\ chart_file = None
    /\ exit_code = None
    /\ calls = <<>>

FnGuard == pc = "fn" /\ Len(calls) < MaxCalls

FnAddNormalized ==
    /\ FnGuard
    /\ calls' = Append(calls, "add_normalized")
    /\ points' = add_normalized(points)
    /\ max_thr' = MaxThr(points)
    /\ UNCHANGED <<argv, pc, idx, csv_file, stdout, stderr, pts_sorted, labels,
                   heights, bar_text, ylim, chart_file, exit_code>>

FnWriteCsv ==
    /\ FnGuard
    /\ calls' = Append(calls, "write_csv")
    /\ csv_file' = [path |-> argv.output_csv, lines |-> write_csv(points),
                    complete |-> TRUE]
    /\ UNCHANGED <<argv, pc, idx, points, max_thr, stdout, stderr, pts_sorted,
                   labels, heights, bar_text, ylim, chart_file, exit_code>>

FnPrintTable ==
    /\ FnGuard
    /\ calls' = Append(calls, "print_table")
    /\ stdout' = print_table(points)
    /\ UNCHANGED <<argv, pc, idx, points, max_thr, csv_file, stderr, pts_sorted,
                   labels, heights, bar_text, ylim, chart_file, exit_code>>

FnPlot ==
    /\ FnGuard
    /\ calls' = Append(calls, "plot")
    /\ \E mpl \in BOOLEAN, save_ok \in BOOLEAN :
          LET r == plot(points, argv.plot_out, mpl, save_ok)
          IN  /\ points' = r.points
              /\ pts_sorted' = r.pts_sorted
              /\ labels' = r.labels
              /\ heights' = r.heights
              /\ bar_text' = r.bar_text
              /\ ylim' = r.ylim
              /\ chart_file' = IF r.chart = None THEN chart_file ELSE r.chart
              /\ stderr' = r.err
    /\ UNCHANGED <<argv, pc, idx, max_thr, csv_file, stdout, exit_code>>

NextFn ==
    \/ FnAddNormalized
    \/ FnWriteCsv
    \/ FnPrintTable
    \/ FnPlot

SpecFn == InitFn /\ [][NextFn]_vars

----------------------------------------------------------------------------
(* Vocabulary of the properties.                                           *)

HasNorm(pt) == "normalized_throughput" \in DOMAIN pt

Raw(pt) == [cpu_pct |-> pt.cpu_pct, throughput |-> pt.throughput,
            latency |-> pt.latency]

\* main has parsed every argument and add_normalized has returned.
NormalizerRan ==
    \/ pc \in {"write_file", "render", "plot", "crash"}
    \/ pc = "exit" /\ idx > Len(argv.points)

\* The known throughputs of the list.
ThrValues == {points[k].throughput : k \in 1..Len(points)} \ {None}

\* m is the maximum of the known throughputs, None when there is none.
IsMaxThr(m) ==
    IF ThrValues = {} THEN m = None
    ELSE m \in ThrValues /\ \A v \in ThrValues : RatLe(v, m)

\* n is the quotient thr / m (m # 0), by cross-multiplication.
IsQuotient(n, thr, m) ==
    n # None /\ n[2] > 0 /\ n[1] * thr[2] * m[1] = n[2] * thr[1] * m[2]

NumCommas(text) == Cardinality({k \in 1..Len(text) : text[k] = ","})
Malformed(text) == NumCommas(text) # 2

CsvFailed == \E k \in 1..Len(stderr) : stderr[k].kind = "csv_failed"

Ended == pc \in {"exit", "crash"}

\* The sample parsed from the k-th argument.
Input(k) == parse_point(argv.points[k])

----------------------------------------------------------------------------
(* C1: once add_normalized has run, max_thr is the maximum of the known    *)
(* throughputs (None when there is none), and each sample's                *)
(* normalized_throughput is None when max_thr is None or zero or its own   *)
(* throughput is None, and is throughput / max_thr otherwise.              *)
C1_NormalizedByMax ==
    NormalizerRan =>
        /\ IsMaxThr(max_thr)
        /\ \A k \in 1..Len(points) :
              LET thr == points[k].throughput
                  n   == points[k].normalized_throughput
              IN  IF max_thr = None \/ max_thr[1] = 0 \/ thr = None
                  THEN n = None
                  ELSE IsQuotient(n, thr, max_thr)

\* The example of the specification: [100000, 82000, None] gives [1.0, 0.82, None].
C1_Witness ==
    /\ NormalizerRan
    /\ Len(points) = 3
    /\ points[1].throughput = <<100000, 1>> /\ points[1].normalized_throughput = <<1, 1>>
    /\ points[2].throughput = <<82000, 1>> /\ points[2].normalized_throughput = <<41, 50>>
    /\ points[3].throughput = None /\ points[3].normalized_throughput = None

(* C2: with an argument that does not have exactly three comma-separated   *)
(* fields anywhere on the command line, main never gets past parsing: it   *)
(* ends with exit code 1, add_normalized does not run, and no table row,   *)
(* CSV file or chart is produced.                                          *)
C2_MalformedAborts ==
    (\E k \in 1..Len(argv.points) : Malformed(argv.points[k])) =>
        /\ pc \in {"parse", "exit"}
        /\ pc = "exit" => exit_code = <<1>>
        /\ \A k \in 1..Len(points) : ~HasNorm(points[k])
        /\ max_thr = None
        /\ stdout = <<>>
        /\ csv_file = None
        /\ chart_file = None

\* main has ended on a malformed argument that follows well-formed ones.
C2_Witness ==
    /\ pc = "exit"
    /\ exit_code = <<1>>
    /\ idx > 1
    /\ Malformed(argv.points[idx])
    /\ \A k \in 1..(idx - 1) : ~Malformed(argv.points[k])

(* C3: a chart error never aborts the run: when every argument is well     *)
(* formed and no CSV-file write failed, the process ends by main returning *)
(* 0, whether matplotlib is missing or writing the chart fails.            *)
C3_ChartErrorsNeverAbort ==
    (/\ Ended
     /\ \A k \in 1..Len(argv.points) : ~Malformed(argv.points[k])
     /\ ~CsvFailed)
        => pc = "exit" /\ exit_code = <<0>>

(* C4 as stated: a failed --output-csv write ends main with 1 after        *)
(* parsing and normalization, with the --format table already on stdout.   *)
(* main's steps run in one fixed order and every format writes at least    *)
(* one line, so a run that aborts on the file write with the table on      *)
(* stdout exists exactly when every such abort finds stdout written.       *)
C4_AbortAfterStdoutTable ==
    CsvFailed =>
        /\ pc = "exit" /\ exit_code = <<1>>
        /\ Len(points) = Len(argv.points)
        /\ \A k \in 1..Len(points) : HasNorm(points[k])
        /\ stdout # <<>>

(* C4 amended: a failed --output-csv write ends main with 1 after parsing  *)
(* and normalization, and before anything was written to stdout.           *)
C4_AbortBeforeStdout ==
    CsvFailed =>
        /\ pc = "exit" /\ exit_code = <<1>>
        /\ Len(points) = Len(argv.points)
        /\ \A k \in 1..Len(points) : HasNorm(points[k])
        /\ stdout = <<>>

\* main has ended on a failed write that left part of the file behind.
C4_Witness ==
    /\ CsvFailed
    /\ pc = "exit"
    /\ csv_file # None
    /\ Len(points) = 2

(* C5 as stated: after add_normalized, a sample's normalized_throughput is *)
(* None if its throughput is None or no sample has a positive throughput.  *)
C5_NoneUnlessPositive ==
    NormalizerRan =>
        \A k \in 1..Len(points) :
            (\/ points[k].throughput = None
             \/ ~\E v \in ThrValues : RatLt(Zero, v))
                => points[k].normalized_throughput = None

(* C5 amended: after add_normalized, a sample's normalized_throughput is   *)
(* None exactly when its throughput is None or the maximum known           *)
(* throughput is zero (or there is no known throughput); a list whose      *)
(* known throughputs are all negative gets non-None values.                *)
C5_NoneIffNoNonzeroMax ==
    NormalizerRan =>
        \A k \in 1..Len(points) :
            points[k].normalized_throughput = None
                <=> (\/ points[k].throughput = None
                     \/ ThrValues = {}
                     \/ \E m \in ThrValues : IsMaxThr(m) /\ m[1] = 0)

\* A list with a zero maximum and a negative throughput: every value None.
C5_Witness ==
    /\ NormalizerRan
    /\ \E k \in 1..Len(points) :
          points[k].throughput # None /\ RatLt(points[k].throughput, Zero)
    /\ \E k \in 1..Len(points) : points[k].throughput = Zero
    /\ \A k \in 1..Len(points) : points[k].normalized_throughput = None

(* C6: the table renderers write one row per sample in the order of the    *)
(* input, in every order of calls: the list keeps the input's order and    *)
(* samples in every state (plot sorts a copy), and what write_csv and      *)
(* print_table wrote has the header lines and then the k-th sample's cells *)
(* in the k-th row.                                                        *)
C6_TablesKeepInputOrder ==
    /\ Len(points) = Len(argv.points)
    /\ \A k \in 1..Len(points) : Raw(points[k]) = Input(k)
    /\ csv_file # None =>
          /\ Len(csv_file.lines) = Len(argv.points) + 1
          /\ \A k \in 1..Len(argv.points) :
                LET cells == csv_file.lines[k + 1].cells
                    inp   == Input(k)
                IN  /\ cells[1] = inp.cpu_pct
                    /\ cells[3] = Cell(inp.throughput, 2)
                    /\ cells[4] = Cell(inp.latency, 2)
    /\ stdout # <<>> =>
          /\ Len(stdout) = Len(argv.points) + 2
          /\ \A k \in 1..Len(argv.points) :
                LET cells == stdout[k + 2].cells
                    inp   == Input(k)
                IN  /\ cells[1] = IF inp.cpu_pct = None THEN <<>>
                                  ELSE Fmt(RatSub(Hundred, inp.cpu_pct), 0)
                    /\ cells[2] = Cell(inp.throughput, 2)
                    /\ cells[3] = Cell(inp.latency, 2)

\* write_csv called after a plot whose bars are not in the input's order.
C6_Witness ==
    /\ calls = <<"plot", "write_csv">>
    /\ Len(pts_sorted) = Len(points)
    /\ \E k \in 1..Len(pts_sorted) : Raw(pts_sorted[k]) # Input(k)
    /\ csv_file # None

(* C7: in the order of the chart's bars, every sample with an unknown      *)
(* cpu_pct comes after every sample with a known cpu_pct.                  *)
C7_UnknownCpuLast ==
    \A i \in 1..Len(pts_sorted), j \in 1..Len(pts_sorted) :
        (pts_sorted[i].cpu_pct = None /\ pts_sorted[j].cpu_pct # None) => j < i

(* C8: add_normalized is idempotent: a call on a list it has already run   *)
(* on leaves every sample, and so every normalized_throughput, as the      *)
(* earlier call left it.                                                   *)
C8_Idempotent ==
    [][(/\ \E j \in 1..Len(calls) : calls[j] = "add_normalized"
        /\ calls' = Append(calls, "add_normalized"))
          => points' = points]_vars

\* Two calls in a row on a list with a ratio other than None and 1.
C8_Witness ==
    /\ calls = <<"add_normalized", "add_normalized">>
    /\ \E k \in 1..Len(points) :
          /\ points[k].normalized_throughput # None
          /\ points[k].normalized_throughput # <<1, 1>>

C10_FieldsSetOnce ==
    /\ [](\A k \in 1..Len(points) :
              /\ Raw(points[k]) = Input(k)
              /\ HasNorm(points[k]) => NormalizerRan)
    /\ [][\A k \in 1..Len(points) :
              /\ k <= Len(points')
              /\ Raw(points'[k]) = Raw(points[k])
              /\ HasNorm(points[k]) => points'[k] = points[k]]_vars

\* main has returned 0 after the file write, the stdout table and the chart.
C10_Witness ==
    /\ pc = "exit"
    /\ exit_code = <<0>>
    /\ csv_file # None
    /\ stdout # <<>>
    /\ chart_file # None
    /\ \E k \in 1..Len(points) : points[k].normalized_throughput # None

====
